---- MODULE Spec2Model ----
(***************************************************************************)
(* DISOpticalFlowImpl (src/unread_src.cpp): the coarse-to-fine driver      *)
(* calc, its scale selection, the pyramid buffers, and the numeric         *)
(* kernels computeSSD / computeSSDMeanNorm and the densification blend.    *)
(*                                                                         *)
(* An image is the record [cols, rows] of its dimensions; pixel contents   *)
(* matter only to the numeric kernels, which have specifications of their  *)
(* own further down.                                                       *)
(***************************************************************************)
EXTENDS Integers, Sequences, FiniteSets, TLC

VARIABLES
    finest_scale, coarsest_scale, patch_size, patch_stride,
    variational_refinement_iter,
    w, h, ws, hs,
    I0s, Sx,
    pc, I0, flow, flow_created, flow_written, i,
    computed_scale, auto_selected,
    outcome, entry, stages, gain, runs, calls, sets,
    variational_refinement_processors, stray, collects,
    dens, ssd, par

\* the instance and the calc call in progress
calcvars == << finest_scale, coarsest_scale, patch_size, patch_stride,
               variational_refinement_iter, w, h, ws, hs, I0s, Sx,
               pc, I0, flow, flow_created, flow_written, i,
               computed_scale, auto_selected,
               outcome, entry, stages, gain, runs, calls, sets >>

\* the pool of variational smoothers: its size, the indices it was used at
\* beyond its size, and the collectGarbage calls made
pool == << variational_refinement_processors, stray, collects >>

\* the numeric kernels and the densification stripes run on their own
kernels == << dens, ssd, par >>

vars == << calcvars, pool, kernels >>

(***************************************************************************)
(* Bounds of the model.                                                    *)
(***************************************************************************)
\* calc invocations in one behaviour
MaxCalls == 2

\* setter invocations in one behaviour
MaxSets == 2

\* Image widths and heights offered to calc.  7/8 and 11/12 straddle the two
\* thresholds of the size check for patch size 8; from 40 on
\* autoSelectCoarsestScale reaches scale 1, which calc's own formula reaches
\* at 46 only; 96 gives a three-level pyramid.
Dims == {7, 8, 11, 12, 16, 40, 44, 96}

\* Wide frames, on which the preset offsets 2, 4 and 5 give different finest
\* scales.  Their heights keep every pyramid level at least one row high
\* (cv::resize, which is not part of this source, rejects an empty level).
WideFrames ==
    { [cols |-> 160, rows |-> 16],
      [cols |-> 960, rows |-> 40],
      [cols |-> 1920, rows |-> 96] }

\* A frame whose pyramid has levels of odd size: 94, 47, 23.
OddFrames == { [cols |-> 94, rows |-> 94] }

Images == [cols : Dims, rows : Dims] \cup WideFrames \cup OddFrames

\* The caller feeds the frames of one video: every calc of a behaviour gets
\* images of the size of the first.
Frames(last) == IF last.cols = 0 THEN Images ELSE {last}

\* Values handed to the setters.
FinestScaleArgs == 0..4
PatchSizeArgs == {8, 12}
PatchStrideArgs == {3, 4, 16}
VarRefIterArgs == {0, 5}

(***************************************************************************)
(* Integer helpers.                                                        *)
(***************************************************************************)
RECURSIVE Pow2(_)
Pow2(n) == IF n <= 0 THEN 1 ELSE 2 * Pow2(n - 1)

Max(a, b) == IF a >= b THEN a ELSE b
Min(a, b) == IF a <= b THEN a ELSE b

\* C++ integer division truncates toward zero.
CDiv(a, b) == IF a >= 0 THEN a \div b ELSE -((-a) \div b)

\* floor(log2(q)) for q >= 1
RECURSIVE FloorLog2(_)
FloorLog2(q) == IF q <= 1 THEN 0 ELSE 1 + FloorLog2(q \div 2)

\* (int) of a double that is -infinity is undefined behaviour; x86 (cvttsd2si)
\* and ARM (fcvtzs) builds both yield INT_MIN.
IntMin == -2147483647 - 1
IntOfMinusInfinity == {IntMin}

(***************************************************************************)
(* calc, line 596, first operand:                                          *)
(*   (int)(log(max(cols, rows) / (4.0 * patch_size)) / log(2.0) + 0.5)     *)
(* v = log2(M / 4p) + 1/2 is never an integer (M*M = 2^odd * p*p has no    *)
(* integer solution), so the truncation toward zero is decided by integer  *)
(* comparisons of squares:                                                 *)
(*   v >= 0:  the largest k >= 0 with 2^(2k+3) p^2 <= M^2                  *)
(*   v <  0:  minus the largest j >= 0 with 2^(2j+1) M^2 <= 16 p^2         *)
(***************************************************************************)
RECURSIVE LargestUp(_, _, _)
LargestUp(M, p, k) ==
    IF Pow2(2 * (k + 1) + 3) <= (M * M) \div (p * p) THEN LargestUp(M, p, k + 1) ELSE k

RECURSIVE LargestDown(_, _, _)
LargestDown(M, p, j) ==
    IF Pow2(2 * (j + 1) + 1) * M * M <= 16 * p * p THEN LargestDown(M, p, j + 1) ELSE j

MaxMovementScale(M, p) ==
    IF M * M >= 8 * p * p THEN LargestUp(M, p, 0) ELSE -LargestDown(M, p, 0)

(***************************************************************************)
(* calc, line 597, second operand:                                         *)
(*   (int)(log(min(cols, rows) / patch_size) / log(2.0))                   *)
(* The quotient is an integer division; log(0) is -infinity.               *)
(***************************************************************************)
DeepestLevelScales(m, p) ==
    IF m \div p = 0 THEN IntOfMinusInfinity ELSE {FloorLog2(m \div p)}

\* The values line 596-597 can assign to coarsest_scale.
EntryCoarsestScales(img, p) ==
    { Min(MaxMovementScale(Max(img.cols, img.rows), p), d) :
        d \in DeepestLevelScales(Min(img.cols, img.rows), p) }

(***************************************************************************)
(* autoSelectCoarsestScale: max(0, (int)floor(log2(2 w / (5 patch_size)))) *)
(***************************************************************************)
RECURSIVE LargestRatio(_, _, _)
LargestRatio(img_width, p, k) ==
    IF 5 * p * Pow2(k + 1) <= 2 * img_width THEN LargestRatio(img_width, p, k + 1) ELSE k

autoSelectCoarsestScale(img_width, p) ==
    IF 5 * p <= 2 * img_width THEN LargestRatio(img_width, p, 0) ELSE 0

\* autoSelectPatchSizeAndScales: the switch on finest_scale.
AutoPatchSize(key) == IF key = 3 \/ key = 4 THEN 12 ELSE 8

\* case 4 with the offset of case 3
AutoOffsetCopied(key) == IF key = 3 \/ key = 4 THEN 4 ELSE 2

AutoOffset(key) == IF key = 3 THEN 4 ELSE IF key = 4 THEN 5 ELSE 2

autoSelectPatchSizeAndScales(img_width, key) ==
    LET p == AutoPatchSize(key)
        c == autoSelectCoarsestScale(img_width, p)
    IN  [patch_size |-> p, coarsest_scale |-> c,
         finest_scale |-> Max(c - AutoOffset(key), 0)]

(***************************************************************************)
(* Buffers.  A Mat is its [rows, cols]; the empty Mat is 0 x 0.            *)
(***************************************************************************)
EmptyMat == [rows |-> 0, cols |-> 0]

RECURSIVE LevelDim(_, _, _)

\* the halving of lines 199-200 rounded up
LevelDimRoundedUp(d, finest, lvl) ==
    IF lvl <= finest THEN d \div Pow2(finest) ELSE (LevelDim(d, finest, lvl - 1) + 1) \div 2

\* prepareBuffers: the dimension of level lvl >= finest.
LevelDim(d, finest, lvl) ==
    IF lvl <= finest THEN d \div Pow2(finest) ELSE LevelDim(d, finest, lvl - 1) \div 2

\* vector::resize keeps the old elements and pads with empty Mats; the loop
\* then creates the levels finest..coarsest.  Level lvl is element lvl + 1.
PreparedLevels(old, img, finest, coarsest) ==
    [n \in 1..(coarsest + 1) |->
        IF n - 1 >= finest
        THEN [rows |-> LevelDim(img.rows, finest, n - 1),
              cols |-> LevelDim(img.cols, finest, n - 1)]
        ELSE IF n <= Len(old) THEN old[n] ELSE EmptyMat]

PreparedSx(img, finest, stride) ==
    [rows |-> LevelDim(img.rows, finest, finest) \div stride,
     cols |-> LevelDim(img.cols, finest, finest) \div stride]

(***************************************************************************)
(* The flow argument of calc.                                              *)
(***************************************************************************)
NoFlow == [rows |-> 0, cols |-> 0, type |-> "none"]
FlowArgs(img) ==
    { NoFlow, [rows |-> img.rows, cols |-> img.cols, type |-> "32FC2"] }

SeedsFlow(fl, img) ==
    fl.rows = img.rows /\ fl.cols = img.cols /\ fl.type = "32FC2"

NoImage == [cols |-> 0, rows |-> 0]
NoEntry == [finest_scale |-> 0, coarsest_scale |-> 0, patch_size |-> 0,
            I0s |-> << >>, Sx |-> EmptyMat, flow |-> NoFlow]

Snapshot(fl) ==
    [finest_scale |-> finest_scale, coarsest_scale |-> coarsest_scale,
     patch_size |-> patch_size, I0s |-> I0s, Sx |-> Sx, flow |-> fl]

(***************************************************************************)
(* Construction (lines 120-143).  variational_refinement_processors is the *)
(* size of the vector of that name.                                        *)
(***************************************************************************)
\* line 139
max_possible_scales == 10

Constructed ==
    /\ finest_scale = 2
    /\ patch_size = 8
    /\ patch_stride = 4
    /\ variational_refinement_iter = 5
    /\ coarsest_scale = 10
    /\ w = 0 /\ h = 0 /\ ws = 0 /\ hs = 0
    /\ I0s = << >>
    /\ Sx = EmptyMat
    /\ pc = "idle"
    /\ I0 = NoImage
    /\ flow = NoFlow
    /\ flow_created = FALSE
    /\ flow_written = FALSE
    /\ i = 0
    /\ computed_scale = 0
    /\ auto_selected = FALSE
    /\ outcome = "none"
    /\ entry = NoEntry
    /\ stages = << >>
    /\ gain = << >>
    /\ runs = << >>
    /\ calls = 0
    /\ sets = 0
    /\ variational_refinement_processors = max_possible_scales
    /\ stray = {}
    /\ collects = 0

NoKernel == [pc |-> "none"]

Init ==
    /\ Constructed
    /\ dens = NoKernel
    /\ ssd = NoKernel
    /\ par = NoKernel

callLocals == << I0, flow, flow_created, flow_written, i, computed_scale,
                auto_selected, outcome, entry, stages, gain >>

\* A setter call ends the series of calc calls made under one configuration:
\* what the model remembers of the last call is dropped.
ForgetLastCall ==
    /\ runs' = << >>
    /\ flow' = NoFlow
    /\ flow_created' = FALSE
    /\ flow_written' = FALSE
    /\ i' = 0
    /\ computed_scale' = 0
    /\ auto_selected' = FALSE
    /\ outcome' = "none"
    /\ entry' = NoEntry
    /\ stages' = << >>
    /\ gain' = << >>
    /\ UNCHANGED << I0, pc, calls >>
params == << finest_scale, coarsest_scale, patch_size, patch_stride,
             variational_refinement_iter >>
buffers == << I0s, Sx >>
dims == << w, h, ws, hs >>

(***************************************************************************)
(* Setters (lines 41-49).  A setter ends the series of calc calls made     *)
(* under one configuration.                                                *)
(***************************************************************************)
setFinestScale ==
    /\ pc = "idle"
    /\ sets < MaxSets
    /\ sets' = sets + 1
    /\ \E val \in FinestScaleArgs : finest_scale' = val
    /\ ForgetLastCall
    /\ UNCHANGED << coarsest_scale, patch_size, patch_stride,
                    variational_refinement_iter, dims, buffers, pool, kernels >>

setPatchSize ==
    /\ pc = "idle"
    /\ sets < MaxSets
    /\ sets' = sets + 1
    /\ \E val \in PatchSizeArgs : patch_size' = val
    /\ ForgetLastCall
    /\ UNCHANGED << finest_scale, coarsest_scale, patch_stride,
                    variational_refinement_iter, dims, buffers, pool, kernels >>

setPatchStride ==
    /\ pc = "idle"
    /\ sets < MaxSets
    /\ sets' = sets + 1
    /\ \E val \in PatchStrideArgs : patch_stride' = val
    /\ ForgetLastCall
    /\ UNCHANGED << finest_scale, coarsest_scale, patch_size,
                    variational_refinement_iter, dims, buffers, pool, kernels >>

setVariationalRefinementIterations ==
    /\ pc = "idle"
    /\ sets < MaxSets
    /\ sets' = sets + 1
    /\ \E val \in VarRefIterArgs : variational_refinement_iter' = val
    /\ ForgetLastCall
    /\ UNCHANGED << finest_scale, coarsest_scale, patch_size, patch_stride,
                    dims, buffers, pool, kernels >>

(***************************************************************************)
(* calc, lines 582-586: the CV_Assert preconditions.  A violating call     *)
(* throws before line 588.                                                 *)
(***************************************************************************)
InvalidInputs == {"empty", "not_8UC1", "size_mismatch", "not_continuous"}

calcRejected ==
    /\ pc = "idle"
    /\ calls < MaxCalls
    /\ \E why \in InvalidInputs :
        /\ outcome' = "assert_error"
        /\ entry' = Snapshot(NoFlow)
        /\ I0' = I0
        /\ flow' = NoFlow
        /\ flow_created' = FALSE
        /\ flow_written' = FALSE
    /\ runs' = Append(runs,
           [I0 |-> NoImage, seeded |-> FALSE, outcome |-> "assert_error",
            patch_size |-> patch_size, coarsest_scale |-> coarsest_scale,
            finest_scale |-> finest_scale])
    /\ calls' = calls + 1
    /\ UNCHANGED << params, dims, buffers, pc, i, computed_scale, auto_selected,
                    stages, gain, sets, pool, kernels >>

(***************************************************************************)
(* calc, lines 588-608, for inputs that pass the preconditions: the flow   *)
(* argument is kept as a seed or created, coarsest_scale is assigned, the  *)
(* size check throws or not, and the scales are auto-selected or not.      *)
(***************************************************************************)
CreatedFlow(img) == [rows |-> img.rows, cols |-> img.cols, type |-> "32FC2"]

\* the comparison of line 602 made inclusive
NeedsAutoSelectInclusive(c, finest) == c <= finest

\* line 602
NeedsAutoSelect(c, finest) == c < finest

\* the size check off by one
TooSmallOffByOne(c) == c <= 0

\* line 599
TooSmall(c) == c < 0

ScalesAfterEntry(img, c) ==
    IF TooSmall(c)
    THEN [patch_size |-> patch_size, coarsest_scale |-> c, finest_scale |-> finest_scale]
    ELSE IF NeedsAutoSelect(c, finest_scale)
    THEN autoSelectPatchSizeAndScales(img.cols, finest_scale)
    ELSE [patch_size |-> patch_size, coarsest_scale |-> c, finest_scale |-> finest_scale]

calcEntryOn(frames) ==
    /\ pc = "idle"
    /\ calls < MaxCalls
    /\ \E img \in frames :
       \E fl \in FlowArgs(img) :
       \E c \in EntryCoarsestScales(img, patch_size) :
        LET after == ScalesAfterEntry(img, c)
            failed == TooSmall(c)
        IN  /\ I0' = img
            /\ entry' = Snapshot(fl)
            /\ flow' = IF SeedsFlow(fl, img) THEN fl ELSE CreatedFlow(img)
            /\ flow_created' = ~SeedsFlow(fl, img)
            /\ flow_written' = FALSE
            /\ computed_scale' = c
            /\ auto_selected' = (~failed /\ NeedsAutoSelect(c, finest_scale))
            /\ patch_size' = after.patch_size
            /\ coarsest_scale' = after.coarsest_scale
            /\ finest_scale' = after.finest_scale
            /\ outcome' = IF failed THEN "size_error" ELSE "running"
            /\ pc' = IF failed THEN "idle" ELSE "prepare"
            /\ runs' = Append(runs,
                   [I0 |-> img, seeded |-> SeedsFlow(fl, img),
                    outcome |-> IF failed THEN "size_error" ELSE "ran",
                    patch_size |-> after.patch_size,
                    coarsest_scale |-> after.coarsest_scale,
                    finest_scale |-> after.finest_scale])
    /\ calls' = calls + 1
    /\ stages' = << >>
    /\ gain' = << >>
    /\ UNCHANGED << patch_stride, variational_refinement_iter, dims, buffers, i, sets, pool, kernels >>

calcEntry == calcEntryOn(Frames(I0))

(***************************************************************************)
(* calc, lines 612-614: prepareBuffers and the zero flow of the coarsest   *)
(* level.  gain[s + 1] is the factor by which a displacement of the dense  *)
(* flow of scale s is present in the flow carried so far (0: none yet).    *)
(***************************************************************************)
\* lines 216-220, 643 and 681: the indices first..last that lie outside a
\* vector of the given size
StrayIndices(first, last, size) == { k \in first..last : k >= size }

prepareBuffers ==
    /\ pc = "prepare"
    /\ I0s' = PreparedLevels(I0s, I0, finest_scale, coarsest_scale)
    /\ Sx' = PreparedSx(I0, finest_scale, patch_stride)
    /\ stray' = stray \cup StrayIndices(finest_scale, coarsest_scale,
                                         variational_refinement_processors)
    /\ gain' = [n \in 1..(coarsest_scale + 1) |-> 0]
    /\ i' = coarsest_scale
    /\ pc' = "loop"
    /\ UNCHANGED << params, dims, I0, flow, flow_created, flow_written,
                    computed_scale, auto_selected, outcome, entry, stages, runs, calls, sets,
                    variational_refinement_processors, collects, kernels >>

(***************************************************************************)
(* calc, lines 616-652: one scale.                                         *)
(***************************************************************************)
\* line 616, the loop test
InLoop(lvl, finest) == lvl >= finest

\* lines 621-622
SparseDim(d, psz, pstr) == 1 + CDiv(d - psz, pstr)

Stage(name) == Append(stages, << i, name >>)

precomputeStructureTensor ==
    /\ pc = "loop"
    /\ InLoop(i, finest_scale)
    /\ w' = I0s[i + 1].cols
    /\ h' = I0s[i + 1].rows
    /\ ws' = SparseDim(I0s[i + 1].cols, patch_size, patch_stride)
    /\ hs' = SparseDim(I0s[i + 1].rows, patch_size, patch_stride)
    /\ stages' = Stage("tensor")
    /\ pc' = "search"
    /\ UNCHANGED << params, buffers, I0, flow, flow_created, flow_written, i,
                    computed_scale, auto_selected, outcome, entry, gain, runs, calls, sets, pool, kernels >>

PatchInverseSearch ==
    /\ pc = "search"
    /\ stages' = Stage("search")
    /\ pc' = "densify"
    /\ UNCHANGED << params, dims, buffers, I0, flow, flow_created, flow_written, i,
                    computed_scale, auto_selected, outcome, entry, gain, runs, calls, sets, pool, kernels >>

Densification ==
    /\ pc = "densify"
    /\ stages' = Stage("densify")
    /\ gain' = [gain EXCEPT ![i + 1] = 1]
    /\ pc' = "refine"
    /\ UNCHANGED << params, dims, buffers, I0, flow, flow_created, flow_written, i,
                    computed_scale, auto_selected, outcome, entry, runs, calls, sets, pool, kernels >>

\* line 642
RefinementEnabled(iter) == iter > 0

VariationalRefinement ==
    /\ pc = "refine"
    /\ RefinementEnabled(variational_refinement_iter)
    /\ stages' = Stage("refine")
    /\ pc' = "upsample"
    /\ UNCHANGED << params, dims, buffers, I0, flow, flow_created, flow_written, i,
                    computed_scale, auto_selected, outcome, entry, gain, runs, calls, sets, pool, kernels >>

skipRefinement ==
    /\ pc = "refine"
    /\ ~RefinementEnabled(variational_refinement_iter)
    /\ pc' = "upsample"
    /\ UNCHANGED << params, dims, buffers, I0, flow, flow_created, flow_written, i,
                    computed_scale, auto_selected, outcome, entry, stages, gain, runs, calls, sets, pool, kernels >>

\* the guard of line 645 made inclusive
HasFinerScaleInclusive(lvl, finest) == lvl >= finest

\* line 645
HasFinerScale(lvl, finest) == lvl > finest

\* lines 649-650: Ux[i - 1] *= 2
UpsampleFactor == 2

Upsample ==
    /\ pc = "upsample"
    /\ HasFinerScale(i, finest_scale)
    /\ gain' = [n \in DOMAIN gain |-> UpsampleFactor * gain[n]]
    /\ stages' = Stage("upsample")
    /\ i' = i - 1
    /\ pc' = "loop"
    /\ UNCHANGED << params, dims, buffers, I0, flow, flow_created, flow_written,
                    computed_scale, auto_selected, outcome, entry, runs, calls, sets, pool, kernels >>

finestScaleDone ==
    /\ pc = "upsample"
    /\ ~HasFinerScale(i, finest_scale)
    /\ i' = i - 1
    /\ pc' = "loop"
    /\ UNCHANGED << params, dims, buffers, I0, flow, flow_created, flow_written,
                    computed_scale, auto_selected, outcome, entry, stages, gain, runs, calls, sets, pool, kernels >>

(***************************************************************************)
(* calc, lines 653-656: merge, resize to the input size, scale.            *)
(***************************************************************************)
\* 2 * finest_scale in place of 1 << finest_scale
OutputFactorTwice(finest) == 2 * finest

\* line 656: flowMat *= 1 << finest_scale
OutputFactor(finest) == Pow2(finest)

mergeAndScale ==
    /\ pc = "loop"
    /\ ~InLoop(i, finest_scale)
    /\ gain' = [n \in DOMAIN gain |-> OutputFactor(finest_scale) * gain[n]]
    /\ flow_written' = TRUE
    /\ outcome' = "ok"
    /\ pc' = "idle"
    /\ UNCHANGED << params, dims, buffers, I0, flow, flow_created, i,
                    computed_scale, auto_selected, entry, stages, runs, calls, sets, pool, kernels >>

Next ==
    \/ setFinestScale
    \/ setPatchSize
    \/ setPatchStride
    \/ setVariationalRefinementIterations
    \/ calcRejected
    \/ calcEntry
    \/ prepareBuffers
    \/ precomputeStructureTensor
    \/ PatchInverseSearch
    \/ Densification
    \/ VariationalRefinement
    \/ skipRefinement
    \/ Upsample
    \/ finestScaleDone
    \/ mergeAndScale

Spec == Init /\ [][Next]_vars

(***************************************************************************)
(* collectGarbage (lines 659-683) and the pool of smoothers.  Indexing the *)
(* vector variational_refinement_processors beyond its size, at lines 216, *)
(* 643 and 681, is undefined behaviour: the call goes on with whatever the *)
(* storage behind the vector holds, or the process dies on the pointer     *)
(* read there.                                                             *)
(***************************************************************************)
\* collectGarbage invocations in one behaviour
MaxCollects == 2

\* A frame of a size at which line 596-597 gives coarsest_scale = 10 for
\* patch size 8: round(log2(32768 / 32)) = 10 and log2(8192 / 8) = 10.
LargeFrames == { [cols |-> 32768, rows |-> 8192] }

\* calc on the first frame of a video of large frames
calcLargeFrame ==
    /\ I0 = NoImage
    /\ calcEntryOn(LargeFrames)

\* lines 663-678, then the loop of lines 680-681 on the pool as it is, then
\* line 682
collectGarbage ==
    /\ pc = "idle"
    /\ collects < MaxCollects
    /\ collects' = collects + 1
    /\ I0s' = << >>
    /\ Sx' = EmptyMat
    /\ stray' = stray \cup StrayIndices(finest_scale, coarsest_scale,
                                         variational_refinement_processors)
    /\ variational_refinement_processors' = 0
    /\ UNCHANGED << params, dims, pc, callLocals, runs, calls, sets, kernels >>

\* the loop of lines 680-681 ending the process
collectGarbageFaults ==
    /\ pc = "idle"
    /\ collects < MaxCollects
    /\ StrayIndices(finest_scale, coarsest_scale,
                    variational_refinement_processors) # {}
    /\ collects' = collects + 1
    /\ I0s' = << >>
    /\ Sx' = EmptyMat
    /\ stray' = stray \cup StrayIndices(finest_scale, coarsest_scale,
                                         variational_refinement_processors)
    /\ pc' = "crashed"
    /\ UNCHANGED << params, dims, callLocals, runs, calls, sets,
                    variational_refinement_processors, kernels >>

\* lines 149-216 ending the process at the first index outside the pool
prepareBuffersFaults ==
    /\ pc = "prepare"
    /\ StrayIndices(finest_scale, coarsest_scale,
                    variational_refinement_processors) # {}
    /\ LET k == Max(finest_scale, variational_refinement_processors)
       IN  /\ I0s' = [n \in 1..(coarsest_scale + 1) |->
                        IF n - 1 <= k
                        THEN PreparedLevels(I0s, I0, finest_scale, coarsest_scale)[n]
                        ELSE IF n <= Len(I0s) THEN I0s[n] ELSE EmptyMat]
           /\ stray' = stray \cup {k}
    /\ Sx' = PreparedSx(I0, finest_scale, patch_stride)
    /\ outcome' = "crashed"
    /\ pc' = "crashed"
    /\ UNCHANGED << params, dims, I0, flow, flow_created, flow_written, i,
                    computed_scale, auto_selected, entry, stages, gain, runs, calls, sets,
                    variational_refinement_processors, collects, kernels >>

LifecycleNext ==
    \/ Next
    \/ calcLargeFrame
    \/ collectGarbage
    \/ collectGarbageFaults
    \/ prepareBuffersFaults

SpecLifecycle == Init /\ [][LifecycleNext]_vars

(***************************************************************************)
(* Single-precision arithmetic.  A float is [m, e], the value m * 2^e,     *)
(* with m = 0 or 2^23 <= |m| < 2^24.  Every operation rounds its exact     *)
(* result to the nearest float, ties to even, as the float operators of    *)
(* the source do, one operation at a time (no fused multiply-add); the     *)
(* exponent range is not limited (the pixel values and displacements of    *)
(* the kernels stay far from overflow and underflow).  All intermediate    *)
(* integers stay below 2^31.                                               *)
(***************************************************************************)
\* FLT_MANT_DIG of the type float
MantBits == 24

\* 2^0 .. 2^30, the powers of two of a 32-bit int
PowersOfTwo ==
    << 1, 2, 4, 8, 16, 32, 64, 128, 256, 512, 1024, 2048, 4096, 8192,
       16384, 32768, 65536, 131072, 262144, 524288, 1048576, 2097152,
       4194304, 8388608, 16777216, 33554432, 67108864, 134217728,
       268435456, 536870912, 1073741824 >>
Shl(k) == PowersOfTwo[k + 1]

Two12 == Shl(12)
Two23 == Shl(MantBits - 1)
Two24 == Shl(MantBits)

\* F(e) and F(e1, e2), the arguments evaluated once, before F is applied
Only(S) == CHOOSE v \in S : TRUE
Bind(e, F(_)) == Only({F(x) : x \in {e}})
Bind2(e1, e2, F(_, _)) == Only({F(x, y) : x \in {e1}, y \in {e2}})

Abs(n) == IF n < 0 THEN -n ELSE n
Sign(n) == IF n < 0 THEN -1 ELSE 1

FZero == [m |-> 0, e |-> 0]

\* the number of binary digits of 0 <= n < 2^31, known to lie in lo..hi
RECURSIVE BitLenIn(_, _, _)
BitLenIn(n, lo, hi) ==
    IF lo = hi THEN lo
    ELSE LET mid == (lo + hi) \div 2
         IN  IF n < Shl(mid) THEN BitLenIn(n, lo, mid) ELSE BitLenIn(n, mid + 1, hi)

BitLen(n) == BitLenIn(n, 0, 31)

\* q + r / (2 half), to the nearest integer, ties to even
NearestEven(q, r, half) ==
    IF r > half \/ (r = half /\ q % 2 = 1) THEN q + 1 ELSE q

\* the float with mantissa q < 2^24 + 1 after rounding
FPack(sign, q, e) ==
    IF q = Two24 THEN [m |-> sign * Two23, e |-> e + 1] ELSE [m |-> sign * q, e |-> e]

\* n * 2^e for |n| < 2^31 with k binary digits beyond the 24 of a float,
\* rounded: the float v, and x, whether v is exact (lost says that n is
\* itself a truncation)
RoundedBy(n, e, lost, k) ==
    IF n = 0 THEN [v |-> FZero, x |-> ~lost]
    ELSE IF k <= 0 THEN [v |-> [m |-> n * Shl(-k), e |-> e + k], x |-> ~lost]
    ELSE [v |-> FPack(Sign(n),
                      NearestEven(Abs(n) \div Shl(k), Abs(n) % Shl(k), Shl(k - 1)),
                      e + k),
          x |-> ~lost /\ Abs(n) % Shl(k) = 0]

Rounded(n, e, lost) ==
    Bind(BitLen(Abs(n)) - MantBits, LAMBDA k : RoundedBy(n, e, lost, k))

FromInt(n) == Bind(n, LAMBDA x : Rounded(x, 0, FALSE)).v

FNeg(a) == Bind(a, LAMBDA x : [m |-> -x.m, e |-> x.e])
FAbs(a) == Bind(a, LAMBDA x : [m |-> Abs(x.m), e |-> x.e])

\* a < b
FLess(a, b) ==
    IF a.m = 0 \/ b.m = 0 \/ Sign(a.m) # Sign(b.m) THEN
        (IF a.m = 0 THEN b.m > 0 ELSE IF b.m = 0 THEN a.m < 0 ELSE a.m < b.m)
    ELSE IF a.e = b.e THEN a.m < b.m
    ELSE IF a.m > 0 THEN a.e < b.e ELSE a.e > b.e

\* std::max(a, b) and std::min(a, b) of floats
FMax(a, b) == Bind2(a, b, LAMBDA x, y : IF FLess(x, y) THEN y ELSE x)
FMin(a, b) == Bind2(a, b, LAMBDA x, y : IF FLess(y, x) THEN y ELSE x)

(***************************************************************************)
(* a * b.  The 48-bit product of the mantissas is hi * 2^24 + lo, built    *)
(* from 12-bit limbs.                                                      *)
(***************************************************************************)
MulHiLo(A, B) ==
    LET a1 == A \div Two12
        a0 == A % Two12
        b1 == B \div Two12
        b0 == B % Two12
        mid == a1 * b0 + a0 * b1
        low == (mid % Two12) * Two12 + a0 * b0
    IN  [hi |-> a1 * b1 + mid \div Two12 + low \div Two24, lo |-> low % Two24]

\* the product's leading 24 bits q, the rest r, and half a unit of q
MulParts(p, e) ==
    IF p.hi >= Two23
    THEN [q |-> p.hi, r |-> p.lo, half |-> Two23, e |-> e + MantBits]
    ELSE [q |-> 2 * p.hi + p.lo \div Two23, r |-> p.lo % Two23,
          half |-> Two23 \div 2, e |-> e + MantBits - 1]

MulV(a, b) ==
    IF a.m = 0 \/ b.m = 0 THEN [v |-> FZero, x |-> TRUE]
    ELSE Bind(Bind(MulHiLo(Abs(a.m), Abs(b.m)), LAMBDA p : MulParts(p, a.e + b.e)),
              LAMBDA p : [v |-> FPack(Sign(a.m) * Sign(b.m),
                                      NearestEven(p.q, p.r, p.half), p.e),
                          x |-> p.r = 0])

MulX(a, b) == Bind2(a, b, MulV)
FMul(a, b) == MulX(a, b).v

(***************************************************************************)
(* a + b.  Operands at most 6 binary places apart are added exactly; a     *)
(* smaller operand further away is shifted to 3 places below the larger    *)
(* one, the bits shifted out kept as a sticky last bit.                    *)
(***************************************************************************)
ExactShift == 6
GuardBits == 3

\* n / 2^k for n < 2^24, the bits shifted out kept as a sticky last bit
Jam(n, k) ==
    LET p == Shl(Min(k, MantBits))
    IN  (n \div p) + (IF n % p # 0 /\ (n \div p) % 2 = 0 THEN 1 ELSE 0)

\* big + small, big the operand with the larger exponent
AddParts(big, small) ==
    LET d == big.e - small.e
    IN  IF d <= ExactShift
        THEN [n |-> big.m * Shl(d) + small.m, e |-> small.e, lost |-> FALSE]
        ELSE [n |-> big.m * Shl(GuardBits)
                    + Sign(small.m) * Jam(Abs(small.m), d - GuardBits),
              e |-> big.e - GuardBits,
              lost |-> Abs(small.m) % Shl(Min(d - GuardBits, MantBits)) # 0]

AddV(a, b) ==
    IF a.m = 0 THEN [v |-> b, x |-> TRUE]
    ELSE IF b.m = 0 THEN [v |-> a, x |-> TRUE]
    ELSE Bind(IF a.e >= b.e THEN AddParts(a, b) ELSE AddParts(b, a),
              LAMBDA p : Rounded(p.n, p.e, p.lost))

AddX(a, b) == Bind2(a, b, AddV)
SubX(a, b) == Bind2(a, FNeg(b), AddV)

FAdd(a, b) == AddX(a, b).v
FSub(a, b) == SubX(a, b).v

(***************************************************************************)
(* a / b, b # 0: 26 quotient bits by long division, the remainder kept as  *)
(* a sticky last bit.                                                      *)
(***************************************************************************)
QuotientBits == 26

RECURSIVE LongDiv(_, _, _, _)
LongDiv(q, r, B, bits) ==
    IF bits = 0 THEN [q |-> q, r |-> r]
    ELSE Bind2(2 * q + (2 * r) \div B, (2 * r) % B,
               LAMBDA q1, r1 : LongDiv(q1, r1, B, bits - 1))

DivParts(a, b, d) ==
    [n |-> Sign(a.m) * Sign(b.m) * (2 * d.q + (IF d.r # 0 THEN 1 ELSE 0)),
     e |-> a.e - b.e - QuotientBits - 1,
     lost |-> d.r # 0]

DivV(a, b) ==
    IF a.m = 0 THEN [v |-> FZero, x |-> TRUE]
    ELSE Bind(Bind(LongDiv(Abs(a.m) \div Abs(b.m), Abs(a.m) % Abs(b.m), Abs(b.m),
                           QuotientBits),
                   LAMBDA d : DivParts(a, b, d)),
              LAMBDA p : Rounded(p.n, p.e, p.lost))

DivX(a, b) == Bind2(a, b, DivV)
FDiv(a, b) == DivX(a, b).v

FOne == FromInt(1)

\* (int)a, truncation toward zero, for |a| < 2^31
TruncV(a) ==
    IF a.m = 0 THEN 0
    ELSE IF a.e >= 0 THEN a.m * Shl(a.e)
    ELSE IF -a.e >= MantBits THEN 0
    ELSE Sign(a.m) * (Abs(a.m) \div Shl(-a.e))

Trunc(a) == Bind(a, TruncV)

\* the decimal num / den as a float literal or a computed float
Decimal(num, den) == FDiv(FromInt(num), FromInt(den))

\* #define EPS 0.001F (line 7)
EPS == Decimal(1, 1000)

(***************************************************************************)
(* Synthetic 8-bit images: the pixel at (r, c).                            *)
(***************************************************************************)
Pixel(img, r, c) ==
    CASE img = "zero" -> 0
      [] img = "flat" -> 100
      [] img = "spot" -> (IF r = 0 /\ c = 0 THEN 1 ELSE 0)
      [] img = "ramp" -> (16 * r + 3 * c) % 128
      [] img = "checker" -> (IF (r + c) % 2 = 0 THEN 0 ELSE 150)

(***************************************************************************)
(* Densification_ParBody::operator() (lines 490-576) on one pyramid level  *)
(* of DensDim x DensDim pixels, for a sparse field whose patches all       *)
(* carry the displacement (Sx, Sy).  The state dens holds the locals of    *)
(* the loops; Ux, Uy are the values stored at the last pixel written, and  *)
(* blended / inexact say how many patches were blended there and whether   *)
(* one of the operations of lines 565-572 was rounded on the way.          *)
(***************************************************************************)
\* dis->w and dis->h of the level
DensDim == 14

DensPatchSizes == {8}

\* (Sx, Sy) in tenths of a pixel
DisplacementTenths == { <<0, 0>>, <<1, -23>>, <<15, 1>>, <<-23, 15>> }
Displacements == { <<Decimal(t[1], 10), Decimal(t[2], 10)>> : t \in DisplacementTenths }

DensImages == { <<"ramp", "ramp">>, <<"flat", "checker">>,
                <<"ramp", "checker">>, <<"flat", "ramp">> }

DensInputs ==
    { [pc |-> "call", Sx |-> d[1], Sy |-> d[2], psz |-> psz, pstr |-> pstr,
       img0 |-> im[1], img1 |-> im[2],
       row |-> 0, col |-> 0,
       start_is |-> 0, end_is |-> 0, start_js |-> 0, end_js |-> 0,
       is |-> 0, js |-> 0,
       sum_Ux |-> FZero, sum_Uy |-> FZero, sum_coef |-> FZero,
       n |-> 0, rounded |-> FALSE,
       written |-> FALSE, Ux |-> FZero, Uy |-> FZero,
       blended |-> 0, inexact |-> FALSE] :
      d \in Displacements,
      psz \in DensPatchSizes, pstr \in PatchStrideArgs, im \in DensImages }

\* the macros without the test start_is < end_is
UpdateSparseCoordinatesUnguarded(pos, first, last, psz, pstr, dim) ==
    LET bumped == IF pos % pstr = 0 /\ pos + psz <= dim THEN last + 1 ELSE last
    IN  [first |-> IF pos - psz >= 0 /\ (pos - psz) % pstr = 0
                   THEN first + 1 ELSE first,
         last |-> bumped]

\* UPDATE_SPARSE_I_COORDINATES / UPDATE_SPARSE_J_COORDINATES (lines 519-529)
UpdateSparseCoordinates(pos, first, last, psz, pstr, dim) ==
    LET bumped == IF pos % pstr = 0 /\ pos + psz <= dim THEN last + 1 ELSE last
    IN  [first |-> IF pos - psz >= 0 /\ (pos - psz) % pstr = 0 /\ first < bumped
                   THEN first + 1 ELSE first,
         last |-> bumped]

\* lines 554-555: min(max(pos + S, 0.0f), dim - 1.0f - EPS)
ClampedCoordinate(pos, S, dim) ==
    FMin(FMax(FAdd(FromInt(pos), S), FZero),
         FSub(FSub(FromInt(dim), FOne), EPS))

\* lines 560-563, from the coordinates and their integer parts
Interpolated(d, row, col, j_m, i_m, j_l, i_l) ==
    LET fj == FSub(j_m, FromInt(j_l))
        gj == FSub(FromInt(j_l + 1), j_m)
        fi == FSub(i_m, FromInt(i_l))
        gi == FSub(FromInt(i_l + 1), i_m)
        I(r, c) == FromInt(Pixel(d.img1, r, c))
    IN  FSub(FAdd(FAdd(FAdd(FMul(FMul(fj, fi), I(i_l + 1, j_l + 1)),
                            FMul(FMul(gj, fi), I(i_l + 1, j_l))),
                       FMul(FMul(fj, gi), I(i_l, j_l + 1))),
                  FMul(FMul(gj, gi), I(i_l, j_l))),
             FromInt(Pixel(d.img0, row, col)))

\* lines 554-563: the residual of a patch's displacement at pixel (row, col)
Residual(d, row, col) ==
    Bind2(ClampedCoordinate(col, d.Sx, DensDim), ClampedCoordinate(row, d.Sy, DensDim),
          LAMBDA j_m, i_m :
              Bind2(Trunc(j_m), Trunc(i_m),
                    LAMBDA j_l, i_l : Interpolated(d, row, col, j_m, i_m, j_l, i_l)))

\* a weight that falls to zero with the residual
CoefLinear(diff) == FMax(FZero, FSub(FOne, FAbs(diff)))

\* line 564
Coef(diff) == FDiv(FOne, FMax(FOne, FAbs(diff)))

\* lines 571-572, with the normalisation left out
DenseValueUnnormalised(sum, sum_coef) == sum

\* lines 571-572
DenseValue(sum, sum_coef) == FDiv(sum, sum_coef)

densEnter ==
    /\ dens.pc = "call"
    /\ dens' = [dens EXCEPT !.pc = "pixel", !.row = -1, !.col = DensDim,
                            !.start_is = 0, !.end_is = -1]
    /\ UNCHANGED << calcvars, pool, ssd, par >>

densNextRow ==
    /\ dens.pc = "pixel"
    /\ dens.col = DensDim
    /\ dens.row + 1 < DensDim
    /\ LET u == UpdateSparseCoordinates(dens.row + 1, dens.start_is, dens.end_is,
                                        dens.psz, dens.pstr, DensDim)
       IN  dens' = [dens EXCEPT !.row = dens.row + 1, !.col = 0,
                                !.start_is = u.first, !.end_is = u.last,
                                !.start_js = 0, !.end_js = -1]
    /\ UNCHANGED << calcvars, pool, ssd, par >>

densBeginPixel ==
    /\ dens.pc = "pixel"
    /\ dens.col < DensDim
    /\ LET u == UpdateSparseCoordinates(dens.col, dens.start_js, dens.end_js,
                                        dens.psz, dens.pstr, DensDim)
       IN  dens' = [dens EXCEPT !.pc = "blend",
                                !.start_js = u.first, !.end_js = u.last,
                                !.is = dens.start_is, !.js = u.first,
                                !.sum_Ux = FZero, !.sum_Uy = FZero,
                                !.sum_coef = FZero,
                                !.n = 0, !.rounded = FALSE]
    /\ UNCHANGED << calcvars, pool, ssd, par >>

\* lines 552-569, one pass of the inner loop
densBlendPatch ==
    /\ dens.pc = "blend"
    /\ dens.is <= dens.end_is
    /\ dens.js <= dens.end_js
    /\ \E coef \in {Coef(Residual(dens, dens.row, dens.col))} :
       \E wx \in {MulX(coef, dens.Sx)}, wy \in {MulX(coef, dens.Sy)} :
       \E sx \in {AddX(dens.sum_Ux, wx.v)}, sy \in {AddX(dens.sum_Uy, wy.v)},
          sc \in {AddX(dens.sum_coef, coef)} :
           dens' = [dens EXCEPT
                !.sum_Ux = sx.v,
                !.sum_Uy = sy.v,
                !.sum_coef = sc.v,
                !.n = dens.n + 1,
                !.rounded = dens.rounded \/ ~(wx.x /\ wy.x /\ sx.x /\ sy.x /\ sc.x),
                !.js = IF dens.js = dens.end_js THEN dens.start_js ELSE dens.js + 1,
                !.is = IF dens.js = dens.end_js THEN dens.is + 1 ELSE dens.is]
    /\ UNCHANGED << calcvars, pool, ssd, par >>

\* lines 570-572
densWrite ==
    /\ dens.pc = "blend"
    /\ dens.is > dens.end_is \/ dens.js > dens.end_js
    /\ dens.sum_coef.m # 0
    /\ \E qx \in {DivX(dens.sum_Ux, dens.sum_coef)},
          qy \in {DivX(dens.sum_Uy, dens.sum_coef)} :
           dens' = [dens EXCEPT
                !.pc = "pixel",
                !.col = dens.col + 1,
                !.written = TRUE,
                !.Ux = DenseValue(dens.sum_Ux, dens.sum_coef),
                !.Uy = DenseValue(dens.sum_Uy, dens.sum_coef),
                !.blended = dens.n,
                !.inexact = dens.rounded \/ ~(qx.x /\ qy.x)]
    /\ UNCHANGED << calcvars, pool, ssd, par >>

DensInit ==
    /\ Constructed
    /\ dens \in DensInputs
    /\ ssd = NoKernel
    /\ par = NoKernel

DensNext ==
    \/ densEnter
    \/ densNextRow
    \/ densBeginPixel
    \/ densBlendPatch
    \/ densWrite

SpecDensification == DensInit /\ [][DensNext]_vars

(***************************************************************************)
(* The parallel region of line 640-641: parallel_for_ over                 *)
(* Range(0, nstripes) with a Densification_ParBody.  parallel_for_ cuts    *)
(* the range into chunks of grain stripes and hands every chunk to a       *)
(* worker once, in any order; the workers run concurrently, a pixel at a   *)
(* time.  Only the sliding window is modelled: U[<<i, j>>] is the sequence *)
(* of windows << start_is, end_is, start_js, end_js >> blended into pixel  *)
(* (i, j), one per write of Ux / Uy at that pixel.                         *)
(***************************************************************************)
\* the largest level height and width
MaxStripeDim == 8

\* the largest number of stripes
MaxStripes == 4

StripeHeights == {2, 3, 5, MaxStripeDim}
StripeWidths == {2, 4, MaxStripeDim}
StripePatchSizes == {3}
StripeStrides == {2, 4}
\* the workers running at the same time
Workers == {1, 2}

IdleWorker == [pc |-> "idle"]

Pixels(hh, ww) == (0..(hh - 1)) \X (0..(ww - 1))

StripeInputs ==
    { [pc |-> "run", h |-> hh, w |-> ww, psz |-> psz, pstr |-> pstr,
       nstripes |-> n, grain |-> g, taken |-> {}, returned |-> {},
       worker |-> [k \in Workers |-> IdleWorker],
       U |-> [p \in Pixels(hh, ww) |-> << >>]] :
      hh \in StripeHeights, ww \in StripeWidths,
      psz \in StripePatchSizes, pstr \in StripeStrides,
      n \in 1..MaxStripes, g \in 1..MaxStripes }

\* line 483: (int)ceil(h / (double)nstripes)
StripeSize(hh, n) == (hh + n - 1) \div n

\* the first stripes of the chunks parallel_for_ makes of Range(0, nstripes)
ChunkStarts(n, g) == { a \in 0..(n - 1) : a % g = 0 }

\* lines 494-495
StripeRow(stripe, stripe_sz, hh) == Min(stripe * stripe_sz, hh)

\* lines 532-533 alone: the window of row 0 at every first row
NoWarmUp(row, start_i, first, last, psz, pstr, hh) == [first |-> first, last |-> last]

\* lines 532-537: the window after the rows before..(start_i - 1), from
\* start_is = first, end_is = last
RECURSIVE WarmUp(_, _, _, _, _, _, _)
WarmUp(row, start_i, first, last, psz, pstr, hh) ==
    IF row >= start_i THEN [first |-> first, last |-> last]
    ELSE LET u == UpdateSparseCoordinates(row, first, last, psz, pstr, hh)
         IN  WarmUp(row + 1, start_i, u.first, u.last, psz, pstr, hh)

\* operator() up to line 537, on the chunk that starts with stripe a
parEnter(k) ==
    /\ par.pc = "run"
    /\ par.worker[k].pc = "idle"
    /\ \E a \in ChunkStarts(par.nstripes, par.grain) \ par.taken :
        LET b == Min(a + par.grain, par.nstripes)
            stripe_sz == StripeSize(par.h, par.nstripes)
            start_i == StripeRow(a, stripe_sz, par.h)
            end_i == StripeRow(b, stripe_sz, par.h)
            u == WarmUp(0, start_i, 0, -1, par.psz, par.pstr, par.h)
        IN  par' = [par EXCEPT
                !.taken = par.taken \cup {a},
                !.worker[k] = [pc |-> "rows", chunk |-> a,
                               start_i |-> start_i, end_i |-> end_i,
                               i |-> start_i, j |-> 0,
                               start_is |-> u.first, end_is |-> u.last,
                               start_js |-> 0, end_js |-> -1]]
    /\ UNCHANGED << calcvars, pool, dens, ssd >>

\* lines 538-542
parNextRow(k) ==
    /\ par.pc = "run"
    /\ par.worker[k].pc = "rows"
    /\ par.worker[k].i < par.worker[k].end_i
    /\ LET wk == par.worker[k]
           u == UpdateSparseCoordinates(wk.i, wk.start_is, wk.end_is,
                                        par.psz, par.pstr, par.h)
       IN  par' = [par EXCEPT
               !.worker[k] = [wk EXCEPT !.pc = "cols", !.j = 0,
                                        !.start_is = u.first, !.end_is = u.last,
                                        !.start_js = 0, !.end_js = -1]]
    /\ UNCHANGED << calcvars, pool, dens, ssd >>

\* lines 543-573: one pixel
parPixel(k) ==
    /\ par.pc = "run"
    /\ par.worker[k].pc = "cols"
    /\ par.worker[k].j < par.w
    /\ LET wk == par.worker[k]
           u == UpdateSparseCoordinates(wk.j, wk.start_js, wk.end_js,
                                        par.psz, par.pstr, par.w)
       IN  par' = [par EXCEPT
               !.worker[k] = [wk EXCEPT !.j = wk.j + 1,
                                        !.start_js = u.first, !.end_js = u.last],
               !.U[<< wk.i, wk.j >>] =
                   Append(@, << wk.start_is, wk.end_is, u.first, u.last >>)]
    /\ UNCHANGED << calcvars, pool, dens, ssd >>

\* line 543, the loop test failing, and line 538, i++
parEndRow(k) ==
    /\ par.pc = "run"
    /\ par.worker[k].pc = "cols"
    /\ par.worker[k].j >= par.w
    /\ par' = [par EXCEPT !.worker[k].pc = "rows",
                          !.worker[k].i = par.worker[k].i + 1]
    /\ UNCHANGED << calcvars, pool, dens, ssd >>

\* line 576
parReturn(k) ==
    /\ par.pc = "run"
    /\ par.worker[k].pc = "rows"
    /\ par.worker[k].i >= par.worker[k].end_i
    /\ par' = [par EXCEPT !.worker[k] = IdleWorker,
                          !.returned = par.returned \cup {par.worker[k].chunk}]
    /\ UNCHANGED << calcvars, pool, dens, ssd >>

StripesInit ==
    /\ Constructed
    /\ dens = NoKernel
    /\ ssd = NoKernel
    /\ par \in StripeInputs

StripesNext ==
    \/ \E k \in Workers : parEnter(k)
    \/ \E k \in Workers : parNextRow(k)
    \/ \E k \in Workers : parPixel(k)
    \/ \E k \in Workers : parEndRow(k)
    \/ \E k \in Workers : parReturn(k)

SpecStripes == StripesInit /\ [][StripesNext]_vars

(***************************************************************************)
(* Floats with the inexact flag: [v, x], the value v and whether every     *)
(* operation that led to it was exact.                                     *)
(***************************************************************************)
Exactly(v) == [v |-> v, x |-> TRUE]
OfInt(n) == Exactly(FromInt(n))
Flagged(a, b, Op(_, _)) ==
    Bind2(a, b, LAMBDA p, q :
        Bind(Op(p.v, q.v), LAMBDA r : [v |-> r.v, x |-> p.x /\ q.x /\ r.x]))
Mul(a, b) == Flagged(a, b, MulV)
Add(a, b) == Flagged(a, b, AddV)
Sub(a, b) == Flagged(a, b, LAMBDA p, q : AddV(p, FNeg(q)))
Div(a, b) == Flagged(a, b, DivV)

(***************************************************************************)
(* computeSSD (lines 398-429) and computeSSDMeanNorm (lines 432-471) of a  *)
(* patch of I0 against the bilinearly weighted window of I1, once on the   *)
(* window as it is and once with offset added to each of its pixels: acc,  *)
(* mean_norm and plain are pairs, [1] for the window as it is and [2] for  *)
(* the brightened one.  computeSSD's SSD and SSD_vec are held in           *)
(* sum_diff_sq and sum_diff_sq_vec.                                        *)
(* build says which path the build takes for an 8x8 patch: the scalar loop *)
(* (CV_SIMD128 off) or the vector loop, whose v_reduce_sum adds the four   *)
(* lanes as (0+2)+(1+3) ("sse") or as (0+1)+(2+3) ("neon").                *)
(***************************************************************************)
SSDPatchSizes == {3, 8}
Builds == {"scalar", "sse", "neon"}
BrightnessOffsets == {1, 16, 100}
SSDImages == {"zero", "ramp"} \X {"spot", "ramp", "checker"}

\* sixteenths of w00, w01, w10, w11
WeightSixteenths == { <<16, 0, 0, 0>>, <<8, 8, 0, 0>>, <<4, 4, 4, 4>>, <<9, 3, 3, 1>> }

\* w00 as a decimal, w01 the rest to 1
WeightTenths == {3}

WeightQuads ==
    { [k \in 1..4 |-> Decimal(q[k], 16)] : q \in WeightSixteenths }
    \cup { <<Decimal(t, 10), FSub(FOne, Decimal(t, 10)), FZero, FZero>> : t \in WeightTenths }

\* the four weights add up to 1 without rounding
SumsToOne(wq) ==
    LET s == Add(Add(Add(Exactly(wq[1]), Exactly(wq[2])), Exactly(wq[3])), Exactly(wq[4]))
    IN  s.x /\ s.v = FOne

\* offsets and images keep every brightened pixel within 0..255
SSDInputs ==
    { [pc |-> "idle", patch_sz |-> psz, build |-> b, img0 |-> im[1], img1 |-> im[2],
       weights |-> wq, offset |-> c,
       fn |-> "none", k |-> 0, acc |-> << >>,
       mean_norm |-> << >>, plain |-> << >>] :
      psz \in SSDPatchSizes, b \in Builds, im \in SSDImages,
      wq \in {q \in WeightQuads : SumsToOne(q)},
      c \in BrightnessOffsets }

\* the uchar I1_ptr[r * I1_stride + c] of the window, brightened by off
WindowPixel(in, r, c, off) == Pixel(in.img1, r, c) + off

\* lines 458-460 (and 306-315 for the vector path): diff at (r, c)
BilinearDiff(in, r, c, off) ==
    LET I1(y, x) == OfInt(WindowPixel(in, y, x, off))
        wt(k) == Exactly(in.weights[k])
    IN  Sub(Add(Add(Add(Mul(wt(1), I1(r, c)), Mul(wt(2), I1(r, c + 1))),
                    Mul(wt(3), I1(r + 1, c))),
                Mul(wt(4), I1(r + 1, c + 1))),
            OfInt(Pixel(in.img0, r, c)))

Zero == Exactly(FZero)

Lanes == 0..3

\* lines 401/405 and 435/440-441: the sums before the loop
ZeroSums ==
    [sum_diff |-> Zero, sum_diff_sq |-> Zero,
     sum_diff_vec |-> [l \in Lanes |-> Zero],
     sum_diff_sq_vec |-> [l \in Lanes |-> Zero]]

Windows == 1..2
OffsetOf(in, wn) == IF wn = 1 THEN 0 ELSE in.offset

UsesVectorPath(in) == in.build # "scalar" /\ in.patch_sz = 8

\* lines 461-465 (425 in computeSSD): the sums after one more diff
Accumulated(fn, a, diff) ==
    [a EXCEPT
        !.sum_diff = IF fn = "computeSSDMeanNorm" THEN Add(a.sum_diff, diff)
                     ELSE a.sum_diff,
        !.sum_diff_sq = Add(a.sum_diff_sq, Mul(diff, diff))]

\* lines 456-465 (421-426 in computeSSD): one pass of the scalar loop
ScalarPass(in, off, a) ==
    Bind(BilinearDiff(in, in.k \div in.patch_sz, in.k % in.patch_sz, off),
         LAMBDA diff : Accumulated(in.fn, a, diff))

\* lines 447-448 (410 in computeSSD): the vector sums after one more row,
\* left and right the two halves of the row's diffs
AccumulatedRow(fn, a, left, right) ==
    [a EXCEPT
        !.sum_diff_vec = IF fn = "computeSSDMeanNorm"
                         THEN [l \in Lanes |->
                                 Add(a.sum_diff_vec[l], Add(left[l + 1], right[l + 1]))]
                         ELSE a.sum_diff_vec,
        !.sum_diff_sq_vec = [l \in Lanes |->
            Add(a.sum_diff_sq_vec[l],
                Add(Mul(left[l + 1], left[l + 1]), Mul(right[l + 1], right[l + 1])))]]

\* lines 443-449 (406-412 in computeSSD): one row of the vector loop
VectorPass(in, off, a) ==
    Bind2(<< BilinearDiff(in, in.k, 0, off), BilinearDiff(in, in.k, 1, off),
             BilinearDiff(in, in.k, 2, off), BilinearDiff(in, in.k, 3, off) >>,
          << BilinearDiff(in, in.k, 4, off), BilinearDiff(in, in.k, 5, off),
             BilinearDiff(in, in.k, 6, off), BilinearDiff(in, in.k, 7, off) >>,
          LAMBDA left, right : AccumulatedRow(in.fn, a, left, right))

\* v_reduce_sum of a v_float32x4
v_reduce_sum(vec, build) ==
    IF build = "sse" THEN Add(Add(vec[0], vec[2]), Add(vec[1], vec[3]))
    ELSE Add(Add(vec[0], vec[1]), Add(vec[2], vec[3]))

\* lines 452-453 (413 in computeSSD): the sums after the loop
Reduced(in, a) ==
    IF UsesVectorPath(in)
    THEN [a EXCEPT !.sum_diff = v_reduce_sum(a.sum_diff_vec, in.build),
                   !.sum_diff_sq = v_reduce_sum(a.sum_diff_sq_vec, in.build)]
    ELSE a

\* line 436 with one factor dropped
PatchAreaAsSide(patch_sz) == OfInt(patch_sz)

\* line 436: n = (float)patch_sz * patch_sz
PatchArea(patch_sz) == Mul(OfInt(patch_sz), OfInt(patch_sz))

\* line 470
MeanNormalised(a, patch_sz) ==
    Sub(a.sum_diff_sq, Div(Mul(a.sum_diff, a.sum_diff), PatchArea(patch_sz)))

LoopDone(in) ==
    IF UsesVectorPath(in) THEN in.k = 8 ELSE in.k = in.patch_sz * in.patch_sz

callSSDMeanNorm ==
    /\ ssd.pc = "idle"
    /\ ssd.mean_norm = << >>
    /\ ssd' = [ssd EXCEPT !.pc = "loop", !.fn = "computeSSDMeanNorm", !.k = 0,
                          !.acc = [wn \in Windows |-> ZeroSums]]
    /\ UNCHANGED << calcvars, pool, dens, par >>

callSSD ==
    /\ ssd.pc = "idle"
    /\ ssd.plain = << >>
    /\ ssd' = [ssd EXCEPT !.pc = "loop", !.fn = "computeSSD", !.k = 0,
                          !.acc = [wn \in Windows |-> ZeroSums]]
    /\ UNCHANGED << calcvars, pool, dens, par >>

scalarLoop ==
    /\ ssd.pc = "loop"
    /\ ~UsesVectorPath(ssd)
    /\ ~LoopDone(ssd)
    /\ ssd' = [ssd EXCEPT
            !.k = ssd.k + 1,
            !.acc = [wn \in Windows |-> ScalarPass(ssd, OffsetOf(ssd, wn), ssd.acc[wn])]]
    /\ UNCHANGED << calcvars, pool, dens, par >>

vectorLoop ==
    /\ ssd.pc = "loop"
    /\ UsesVectorPath(ssd)
    /\ ~LoopDone(ssd)
    /\ ssd' = [ssd EXCEPT
            !.k = ssd.k + 1,
            !.acc = [wn \in Windows |-> VectorPass(ssd, OffsetOf(ssd, wn), ssd.acc[wn])]]
    /\ UNCHANGED << calcvars, pool, dens, par >>

returnSSDMeanNorm ==
    /\ ssd.pc = "loop"
    /\ ssd.fn = "computeSSDMeanNorm"
    /\ LoopDone(ssd)
    /\ ssd' = [ssd EXCEPT
            !.pc = "idle", !.fn = "none", !.k = 0, !.acc = << >>,
            !.mean_norm = [wn \in Windows |->
                Bind(Reduced(ssd, ssd.acc[wn]),
                     LAMBDA a : MeanNormalised(a, ssd.patch_sz))]]
    /\ UNCHANGED << calcvars, pool, dens, par >>

returnSSD ==
    /\ ssd.pc = "loop"
    /\ ssd.fn = "computeSSD"
    /\ LoopDone(ssd)
    /\ ssd' = [ssd EXCEPT
            !.pc = "idle", !.fn = "none", !.k = 0, !.acc = << >>,
            !.plain = [wn \in Windows |-> Reduced(ssd, ssd.acc[wn]).sum_diff_sq]]
    /\ UNCHANGED << calcvars, pool, dens, par >>

SSDInit ==
    /\ Constructed
    /\ dens = NoKernel
    /\ ssd \in SSDInputs
    /\ par = NoKernel

SSDNext ==
    \/ callSSDMeanNorm
    \/ callSSD
    \/ scalarLoop
    \/ vectorLoop
    \/ returnSSDMeanNorm
    \/ returnSSD

SpecSSD == SSDInit /\ [][SSDNext]_vars

(***************************************************************************)
(* Properties of calc.                                                     *)
(*                                                                         *)
(* runs holds the calc calls made since the last setter call; while it is  *)
(* not empty the parameters are those the last call left behind and entry  *)
(* is the state that call started in.                                      *)
(***************************************************************************)
\* the last call passed the preconditions, and no setter ran since
Accepted == runs # << >> /\ outcome \in {"size_error", "running", "ok"}

\* the last call threw, and no setter ran since
Failed == runs # << >> /\ outcome \in {"assert_error", "size_error"}

\* the last call got past the size check
Running == runs # << >> /\ outcome \in {"running", "ok"}

Completed == runs # << >> /\ outcome = "ok" /\ pc = "idle"

SmallestDim == Min(I0.cols, I0.rows)
LargestDim == Max(I0.cols, I0.rows)

\* C1 as stated: with patch size 8, calc throws the size error exactly when
\* the smallest image dimension is below 12.
C1_SmallestDimDecides ==
    (Accepted /\ entry.patch_size = 8)
        => (outcome = "size_error" <=> SmallestDim < 12)

\* C1 amended: with patch size 8, calc throws the size error whenever the
\* largest dimension is below 12, and does not throw it when the largest
\* dimension is at least 12 and the smallest at least 8.
C1_LargestDimDecides ==
    (Accepted /\ entry.patch_size = 8)
        => /\ LargestDim < 12 => outcome = "size_error"
           /\ (LargestDim >= 12 /\ SmallestDim >= 8) => outcome # "size_error"

\* a 12 x 8 image, smallest dimension below 12, has run to completion
C1_Witness ==
    /\ Completed
    /\ entry.patch_size = 8
    /\ I0 = [cols |-> 12, rows |-> 8]

\* C2: a failing calc leaves the caller's flow buffer and the instance as
\* they were when it was called.
C2_FailsBeforeAnyMutation ==
    Failed
        => /\ ~flow_created
           /\ ~flow_written
           /\ flow = entry.flow
           /\ I0s = entry.I0s
           /\ Sx = entry.Sx
           /\ coarsest_scale = entry.coarsest_scale
           /\ finest_scale = entry.finest_scale
           /\ patch_size = entry.patch_size

\* C3: two calc calls with the same inputs and no setter call in between
\* end the same way and use the same patch size and scales.
C3_RepeatedCallsAgree ==
    \A a, b \in DOMAIN runs :
        (runs[a].I0 = runs[b].I0 /\ runs[a].seeded = runs[b].seeded
            /\ runs[a].outcome # "assert_error" /\ runs[b].outcome # "assert_error")
        => runs[a] = runs[b]

\* C4: in the returned flow a displacement of the dense flow of scale s is
\* present with factor 2^s, and just before the final scaling with factor
\* 2^(s - finest_scale): one doubling per upsampling step, none at the
\* finest scale.
C4_GainIsPowerOfScale ==
    /\ Completed
        => \A s \in finest_scale..coarsest_scale : gain[s + 1] = Pow2(s)
    /\ (Running /\ pc = "loop" /\ i < finest_scale)
        => \A s \in finest_scale..coarsest_scale :
              gain[s + 1] = Pow2(s - finest_scale)
    /\ (Running /\ pc \in {"refine", "upsample"})
        => \A s \in i..coarsest_scale : gain[s + 1] = Pow2(s - i)

\* a three-level run has returned
C4_Witness ==
    /\ Completed
    /\ coarsest_scale - finest_scale >= 2
    /\ gain[coarsest_scale + 1] = Pow2(coarsest_scale)

(***************************************************************************)
(* Densification of a field of equal displacements.                        *)
(***************************************************************************)
DensWritten == dens.pc # "none" /\ dens.written

\* out - d, in units of the last place of d, is at most k in magnitude
WithinUlps(out, d, k) ==
    IF d.m = 0 THEN out.m = 0
    ELSE IF out.m = 0 THEN FALSE
    ELSE IF out.e >= d.e
         THEN out.e - d.e <= ExactShift
              /\ Abs(out.m * Shl(out.e - d.e) - d.m) <= k
         ELSE d.e - out.e <= ExactShift
              /\ Abs(out.m - d.m * Shl(d.e - out.e)) <= k * Shl(d.e - out.e)

\* C5 (as stated): a pixel blended from patches that all carry the
\* displacement (Sx, Sy) receives exactly (Sx, Sy), whatever the residuals.
C5_DenseIsExactlySparse ==
    DensWritten => dens.Ux = dens.Sx /\ dens.Uy = dens.Sy

\* C5 (amended): such a pixel receives (Sx, Sy) up to single-precision
\* rounding: exactly (Sx, Sy) when no product, partial sum or quotient of
\* lines 565-572 is rounded, and in every case a value within 2n + 1 units
\* in the last place of Sx (of Sy) when n patches are blended.
C5_DenseIsSparseUpToRounding ==
    DensWritten =>
        /\ ~dens.inexact => dens.Ux = dens.Sx /\ dens.Uy = dens.Sy
        /\ WithinUlps(dens.Ux, dens.Sx, 2 * dens.blended + 1)
        /\ WithinUlps(dens.Uy, dens.Sy, 2 * dens.blended + 1)

\* several patches blended into a non-zero displacement without rounding
C5_Witness ==
    /\ DensWritten
    /\ dens.blended >= 2
    /\ ~dens.inexact
    /\ dens.Sx.m # 0 /\ dens.Sy.m # 0
    /\ dens.Ux = dens.Sx /\ dens.Uy = dens.Sy

(***************************************************************************)
(* Brightness offsets and the two SSDs.                                    *)
(***************************************************************************)
MeanNormDone == ssd.pc # "none" /\ ssd.mean_norm # << >>
PlainDone == ssd.pc # "none" /\ ssd.plain # << >>

\* C6 (as stated): adding a constant to every pixel of the frame-1 window
\* leaves the value returned by computeSSDMeanNorm unchanged.
C6_OffsetLeavesMeanNorm ==
    MeanNormDone => ssd.mean_norm[1].v = ssd.mean_norm[2].v

\* C6 (amended): adding a constant to every pixel of the frame-1 window
\* leaves the value returned by computeSSDMeanNorm unchanged whenever no
\* operation of either evaluation is rounded.
C6_OffsetLeavesExactMeanNorm ==
    MeanNormDone /\ ssd.mean_norm[1].x /\ ssd.mean_norm[2].x
        => ssd.mean_norm[1].v = ssd.mean_norm[2].v

\* an exact, non-zero mean-normalised SSD that the offset leaves alone
\* while it changes the plain SSD of the same patches
C6_Witness ==
    /\ MeanNormDone /\ PlainDone
    /\ ssd.mean_norm[1].x /\ ssd.mean_norm[2].x
    /\ ssd.mean_norm[1].v.m # 0
    /\ ssd.mean_norm[1].v = ssd.mean_norm[2].v
    /\ ssd.plain[1].v # ssd.plain[2].v

(***************************************************************************)
(* C7: the stages a call must run, written down from the claim.            *)
(***************************************************************************)
ClaimedStagesOfScale(s, finest, refine) ==
    << << s, "tensor" >>, << s, "search" >>, << s, "densify" >> >>
        \o (IF refine THEN << << s, "refine" >> >> ELSE << >>)
        \o (IF s # finest THEN << << s, "upsample" >> >> ELSE << >>)

RECURSIVE ClaimedStages(_, _, _)
ClaimedStages(s, finest, refine) ==
    IF s < finest THEN << >>
    ELSE ClaimedStagesOfScale(s, finest, refine) \o ClaimedStages(s - 1, finest, refine)

IsPrefix(p, q) == Len(p) <= Len(q) /\ \A n \in 1..Len(p) : p[n] = q[n]

\* C7: a call runs the stages of the scales coarsest_scale..finest_scale in
\* descending order, each scale once, refinement only with a positive
\* iteration count, upsampling at every scale but the finest.
C7_StagesInOrder ==
    LET claimed == ClaimedStages(coarsest_scale, finest_scale,
                                 variational_refinement_iter > 0)
    IN  /\ Running => IsPrefix(stages, claimed)
        /\ Completed => (stages = claimed /\ coarsest_scale >= finest_scale)

\* a two-level run with refinement has returned
C7_Witness ==
    /\ Completed
    /\ coarsest_scale > finest_scale
    /\ variational_refinement_iter > 0
    /\ Len(stages) = 9

\* C8 as stated: auto-selection runs exactly when the computed coarsest
\* scale is coarser (a larger scale index) than the configured finest scale.
C8_AutoSelectWhenCoarser ==
    Running
        => /\ auto_selected <=> computed_scale > entry.finest_scale
           /\ ~auto_selected => /\ patch_size = entry.patch_size
                                /\ finest_scale = entry.finest_scale

\* C8 amended: auto-selection runs exactly when the computed coarsest scale
\* is below the configured finest scale; otherwise the configured patch
\* size and finest scale are used and the computed scale is the coarsest.
C8_AutoSelectWhenBelow ==
    Running
        => /\ auto_selected <=> computed_scale < entry.finest_scale
           /\ ~auto_selected => /\ patch_size = entry.patch_size
                                /\ finest_scale = entry.finest_scale
                                /\ coarsest_scale = computed_scale
           /\ auto_selected => patch_size \in {8, 12}

\* a call whose computed coarsest scale is coarser than the configured
\* finest scale has run with the configured values
C8_Witness ==
    /\ Completed
    /\ ~auto_selected
    /\ computed_scale > entry.finest_scale
    /\ finest_scale = entry.finest_scale

\* C9: the preset table, the recomputed coarsest scale and the finest scale
\* derived from it.
C9_PresetTable ==
    (Running /\ auto_selected)
        => LET key == entry.finest_scale
               size == CASE key = 1 -> 8 [] key = 3 -> 12 [] key = 4 -> 12 [] OTHER -> 8
               offset == CASE key = 1 -> 2 [] key = 3 -> 4 [] key = 4 -> 5 [] OTHER -> 2
           IN  /\ patch_size = size
               /\ coarsest_scale >= 0
               /\ coarsest_scale > 0
                    => 5 * size * Pow2(coarsest_scale) <= 2 * I0.cols
               /\ 5 * size * Pow2(coarsest_scale + 1) > 2 * I0.cols
               /\ finest_scale = Max(coarsest_scale - offset, 0)
               /\ 0 <= finest_scale
               /\ finest_scale <= coarsest_scale

\* auto-selection keyed by 3 has picked patch size 12 on a 96 pixel wide image
C9_Witness ==
    /\ Completed
    /\ auto_selected
    /\ entry.finest_scale = 3
    /\ patch_size = 12
    /\ coarsest_scale = 1

\* C10: every level calc processes holds at least one patch.
C10_LevelHoldsAPatch ==
    (Running /\ pc \in {"search", "densify", "refine", "upsample"})
        => /\ w >= patch_size
           /\ h >= patch_size
           /\ ws >= 1
           /\ hs >= 1

(***************************************************************************)
(* The sliding window of densification.                                    *)
(***************************************************************************)
InRegion == par.pc # "none"

\* the pixels the workers have just written, with the windows blended
\* there: << << i, j >>, << start_is, end_is, start_js, end_js >> >>
JustWritten ==
    { << << par.worker[k].i, par.worker[k].j - 1 >>,
         << par.worker[k].start_is, par.worker[k].end_is,
            par.worker[k].start_js, par.worker[k].end_js >> >> :
      k \in { n \in Workers : par.worker[n].pc = "cols" /\ par.worker[n].j > 0 } }

\* the sparse-grid rows (columns) whose patch footprint covers row (column)
\* pos of a level of dim rows (columns)
Cover(pos, psz, pstr, dim) ==
    { k \in 0..(SparseDim(dim, psz, pstr) - 1) :
        k * pstr <= pos /\ pos <= k * pstr + psz - 1 }

\* the rows (columns) at the end of the level that no footprint reaches
Uncovered(psz, pstr, dim) == { pos \in 0..(dim - 1) : pos >= dim - ((dim - psz) % pstr) }

WindowAsCoded(pos, first, last, psz, pstr, dim) ==
    IF dim < psz THEN first..last = {}
    ELSE /\ first..last # {}
         /\ pstr <= psz =>
              /\ Cover(pos, psz, pstr, dim) = {} <=> pos \in Uncovered(psz, pstr, dim)
              /\ first..last = IF Cover(pos, psz, pstr, dim) # {}
                               THEN Cover(pos, psz, pstr, dim)
                               ELSE {SparseDim(dim, psz, pstr) - 1}

InOnePass(pos, psz, pstr, dim) == WarmUp(0, pos + 1, 0, -1, psz, pstr, dim)

OnePassWindow(p) ==
    LET rows == InOnePass(p[1], par.psz, par.pstr, par.h)
        cols == InOnePass(p[2], par.psz, par.pstr, par.w)
    IN  << rows.first, rows.last, cols.first, cols.last >>

RegionDone ==
    /\ InRegion
    /\ par.returned = ChunkStarts(par.nstripes, par.grain)

\* the rows a worker has been given
RowsOf(k) ==
    IF par.worker[k].pc = "idle" THEN {}
    ELSE par.worker[k].start_i..(par.worker[k].end_i - 1)

\* C12: for every number of stripes, every cut of them into chunks and
\* every interleaving of the workers, no two workers hold the same row,
\* every pixel is written once, with the window one pass over all rows
\* has there, and when the region ends every pixel has been written.
C12_StripesAgreeWithOnePass ==
    InRegion =>
        /\ \A k1, k2 \in Workers : k1 # k2 => RowsOf(k1) \cap RowsOf(k2) = {}
        /\ \A e \in JustWritten : par.U[e[1]] = << e[2] >> /\ e[2] = OnePassWindow(e[1])
        /\ RegionDone => \A p \in DOMAIN par.U : Len(par.U[p]) = 1

\* three stripes of three, three and two rows, each run on its own
C12_Witness ==
    /\ RegionDone
    /\ par.h = MaxStripeDim
    /\ par.nstripes = 3
    /\ par.grain = 1
    /\ par.pstr <= par.psz
    /\ \A p \in DOMAIN par.U : par.U[p] = << OnePassWindow(p) >>

(***************************************************************************)
(* The pyramid.                                                            *)
(***************************************************************************)
\* prepareBuffers of the last call has returned
Prepared == Running /\ pc \notin {"prepare", "crashed"}

\* the call is inside the loop body of one scale
InScale == pc \in {"search", "densify", "refine", "upsample"}

Halved(mat) == [rows |-> mat.rows \div 2, cols |-> mat.cols \div 2]

\* C13: after prepareBuffers there are coarsest_scale + 1 level slots, level
\* finest_scale is the input divided by 2^finest_scale, every coarser level
\* is the floor of half the level before it, the slots below finest_scale
\* are what they were when calc was entered (empty if they did not exist),
\* and the loop of calc works on the levels finest_scale..coarsest_scale
\* only.
C13_PyramidShape ==
    Prepared =>
        /\ Len(I0s) = coarsest_scale + 1
        /\ I0s[finest_scale + 1] = [rows |-> I0.rows \div Pow2(finest_scale),
                                    cols |-> I0.cols \div Pow2(finest_scale)]
        /\ \A lvl \in finest_scale..(coarsest_scale - 1) :
               I0s[lvl + 2] = Halved(I0s[lvl + 1])
        /\ \A lvl \in 0..(finest_scale - 1) :
               I0s[lvl + 1] = IF lvl + 1 <= Len(entry.I0s) THEN entry.I0s[lvl + 1]
                              ELSE EmptyMat
        /\ InScale => /\ finest_scale <= i /\ i <= coarsest_scale
                      /\ w = I0s[i + 1].cols /\ h = I0s[i + 1].rows

\* a pyramid above an unused level, whose finest level is of odd size
C13_Witness ==
    /\ Prepared
    /\ InScale
    /\ finest_scale >= 1
    /\ coarsest_scale >= finest_scale + 1
    /\ i = finest_scale
    /\ I0s[finest_scale + 1].cols % 2 = 1
    /\ I0s[finest_scale + 2].cols = (I0s[finest_scale + 1].cols - 1) \div 2

(***************************************************************************)
(* The pool of variational smoothers.                                      *)
(***************************************************************************)
\* C14: once collectGarbage has been called, the pool still holds its
\* max_possible_scales smoothers, and no index outside the pool has been
\* used.
C14_PoolSurvivesCollectGarbage ==
    collects > 0 =>
        /\ variational_refinement_processors = max_possible_scales
        /\ stray = {}

(***************************************************************************)
(* The sparse buffers.                                                     *)
(***************************************************************************)
\* the cells Sx[is * ws + js], 0 <= is < hs, 0 <= js < ws
GridCells == IF ws > 0 /\ hs > 0 THEN ws * hs ELSE 0

\* C15: at every processed scale the ws * hs cells of the sparse grid fit
\* into the buffer Sx allocated at the finest scale.
C15_SparseGridFitsBuffer ==
    Prepared /\ InScale => GridCells <= Sx.rows * Sx.cols

\* C16: the coarsest scale of every call that got past the size check is an
\* index of the pool of max_possible_scales smoothers.
C16_CoarsestScaleIndexesPool ==
    Running => coarsest_scale <= max_possible_scales - 1

(***************************************************************************)
(* The window and the weights of densification, on a level that holds a    *)
(* patch.                                                                  *)
(***************************************************************************)
InDensification == dens.pc # "none"

\* first..last is a non-empty range of grid rows (columns) of a level of dim
\* rows (columns)
InGrid(first, last, psz, pstr, dim) ==
    0 <= first /\ first <= last /\ last <= SparseDim(dim, psz, pstr) - 1

\* C17: on a level with h >= patch_size and w >= patch_size, at every pixel
\* 0 <= start_is <= end_is <= hs - 1 and 0 <= start_js <= end_js <= ws - 1,
\* every grid cell read lies in the grid, and when the loop over the window
\* ends at least one patch has been blended and the total weight is
\* positive.
C17_WindowInGridAndWeightPositive ==
    InDensification /\ dens.pc = "blend" /\ DensDim >= dens.psz =>
        /\ InGrid(dens.start_is, dens.end_is, dens.psz, dens.pstr, DensDim)
        /\ InGrid(dens.start_js, dens.end_js, dens.psz, dens.pstr, DensDim)
        /\ IF dens.is <= dens.end_is
           THEN /\ InGrid(dens.is, dens.is, dens.psz, dens.pstr, DensDim)
                /\ InGrid(dens.js, dens.js, dens.psz, dens.pstr, DensDim)
           ELSE /\ dens.n = (dens.end_is - dens.start_is + 1)
                               * (dens.end_js - dens.start_js + 1)
                /\ dens.n >= 1
                /\ dens.sum_coef.m > 0

\* a pixel written from a window of two by two cells that has slid in both
\* directions
C17_Witness ==
    /\ DensWritten
    /\ dens.pc = "pixel"
    /\ dens.start_is >= 1
    /\ dens.start_js >= 1
    /\ dens.end_is > dens.start_is
    /\ dens.end_js > dens.start_js
    /\ dens.blended = 4

====
